---- MODULE Spec2Model ----
(***************************************************************************)
(* Model of the Telegram -> Discord relay of src/index.js.                 *)
(*                                                                         *)
(* Strings are sequences of one-character strings, so that the regular     *)
(* expressions of extractTokenInfo are computed on characters.  JavaScript *)
(* null and undefined are the records Null and Undefined.                  *)
(***************************************************************************)
EXTENDS Integers, Sequences, FiniteSets, TLC

VARIABLES
    mainPc,            \* position of startUserbot (and of the top-level catch)
    clientConnected,   \* the TelegramClient holds a connection
    handlerRegistered, \* handleNewMessage is in the client's event handlers
    targetChatId,      \* const targetChatId of startUserbot, Undefined before
    events,            \* the NewMessage events the client has dispatched, in order
    handlers,          \* handlers[m]: the invocation of handleNewMessage for events[m]
    log,               \* the lines appended to messages.log, in order
    gets,              \* the axios.get calls issued, in order
    posts,             \* the axios.post calls issued, in order
    call               \* one isolated call of a function (SpecExtract, SpecLookup)

vars == <<mainPc, clientConnected, handlerRegistered, targetChatId, events,
          handlers, log, gets, posts, call>>

(***************************************************************************)
(* Bounds                                                                  *)
(***************************************************************************)
\* the events the client dispatches in a run
MaxEvents == 2
\* the result entries of a lookup response in SpecLookup
MaxPairs == 3

(***************************************************************************)
(* JavaScript values                                                       *)
(***************************************************************************)
Null == [null |-> TRUE]
Undefined == [undefined |-> TRUE]
EmptyObject == <<>>

\* no isolated call is made
NoCall == [pc |-> "idle"]

\* a string in a place that may also hold null or undefined
JsString(s) == [str |-> s]

\* if (v) for a value that is null, undefined or a JsString
TruthyString(v) == v # Null /\ v # Undefined /\ v # JsString(<<>>)

\* if (v) for a value that is null, undefined or an object
TruthyObject(v) == v # Null /\ v # Undefined

Min(S) == CHOOSE x \in S : \A y \in S : x <= y
Max(S) == CHOOSE x \in S : \A y \in S : x >= y

Repeat(c, n) == [i \in 1..n |-> c]

(***************************************************************************)
(* Character classes of the patterns                                       *)
(***************************************************************************)
Lower == {"a", "b", "c", "d", "e", "f", "g", "h", "i", "j", "k", "l", "m",
          "n", "o", "p", "q", "r", "s", "t", "u", "v", "w", "x", "y", "z"}
Upper == {"A", "B", "C", "D", "E", "F", "G", "H", "I", "J", "K", "L", "M",
          "N", "O", "P", "Q", "R", "S", "T", "U", "V", "W", "X", "Y", "Z"}
Digit == {"0", "1", "2", "3", "4", "5", "6", "7", "8", "9"}
AlNum == Lower \cup Upper \cup Digit

\* the grave accent character (a string of the module cannot hold it)
Backtick == "GRAVE"

CaMinLen == 32
CaMaxLen == 44

LitPrice == <<"*", "*", "P", "r", "i", "c", "e", ":", "*", "*", " ">>
LitMarketCap == <<"*", "*", "M", "a", "r", "k", "e", "t", " ", "C", "a", "p", ":", "*", "*", " ">>
LitHolders == <<"*", "*", "H", "o", "l", "d", "e", "r", "s", ":", "*", "*", " ">>
LitTop10 == <<"*", "*", "T", "o", "p", "1", "0", ":", "*", "*", " ">>

\* const patterns: each regular expression is prefix (class){min,max} suffix,
\* with one capture group around the class run (and the suffix for top10).
patterns ==
    [tokenName |-> [prefix |-> <<"$">>, class |-> AlNum, min |-> 1,
                    bounded |-> FALSE, max |-> 0, suffix |-> <<>>,
                    captureSuffix |-> FALSE],
     ca        |-> [prefix |-> <<Backtick>>, class |-> AlNum, min |-> CaMinLen,
                    bounded |-> TRUE, max |-> CaMaxLen, suffix |-> <<Backtick>>,
                    captureSuffix |-> FALSE],
     price     |-> [prefix |-> LitPrice, class |-> Digit \cup {"$", ".", ","},
                    min |-> 1, bounded |-> FALSE, max |-> 0, suffix |-> <<>>,
                    captureSuffix |-> FALSE],
     mc        |-> [prefix |-> LitMarketCap,
                    class |-> Digit \cup {"$", ".", ",", "k", "M"},
                    min |-> 1, bounded |-> FALSE, max |-> 0, suffix |-> <<>>,
                    captureSuffix |-> FALSE],
     holders   |-> [prefix |-> LitHolders, class |-> Digit, min |-> 1,
                    bounded |-> FALSE, max |-> 0, suffix |-> <<>>,
                    captureSuffix |-> FALSE],
     top10     |-> [prefix |-> LitTop10, class |-> Digit \cup {"."}, min |-> 1,
                    bounded |-> FALSE, max |-> 0, suffix |-> <<"%">>,
                    captureSuffix |-> TRUE]]

\* for (const key in patterns): the keys in insertion order
PatternKeys == <<"tokenName", "ca", "price", "mc", "holders", "top10">>

(***************************************************************************)
(* String.prototype.match for the patterns above                           *)
(***************************************************************************)
\* lit occurs in text at position i
LitAt(text, i, lit) ==
    /\ i + Len(lit) - 1 <= Len(text)
    /\ \A j \in 1..Len(lit) : text[i + j - 1] = lit[j]

RECURSIVE RunLen(_, _, _)
\* length of the longest run of class characters of text from position i
RunLen(text, i, class) ==
    IF i <= Len(text) /\ text[i] \in class
    THEN 1 + RunLen(text, i + 1, class)
    ELSE 0

\* the match of pattern p anchored at position i: greedy on the class run,
\* backtracking to the longest run length after which the suffix occurs
MatchAt(text, i, p) ==
    IF ~LitAt(text, i, p.prefix) THEN Null
    ELSE LET s   == i + Len(p.prefix)
             run == RunLen(text, s, p.class)
             hi  == IF p.bounded /\ p.max < run THEN p.max ELSE run
             K   == {k \in p.min..hi : LitAt(text, s + k, p.suffix)}
         IN  IF K = {} THEN Null
             ELSE LET k == Max(K)
                      e == IF p.captureSuffix THEN s + k - 1 + Len(p.suffix)
                           ELSE s + k - 1
                  IN  [index |-> i, g1 |-> SubSeq(text, s, e)]

\* text.match(p): the leftmost match, or null
RegexMatch(text, p) ==
    LET I == {i \in 1..Len(text) : MatchAt(text, i, p) # Null}
    IN  IF I = {} THEN Null ELSE MatchAt(text, Min(I), p)

(***************************************************************************)
(* extractTokenInfo                                                        *)
(***************************************************************************)
RECURSIVE ForKeyInPatterns(_, _, _)
\* the for loop of extractTokenInfo from the i-th key on
ForKeyInPatterns(text, i, extracted) ==
    IF i > Len(PatternKeys) THEN extracted
    ELSE LET key   == PatternKeys[i]
             match == RegexMatch(text, patterns[key])
         IN  IF match # Null /\ match.g1 # <<>>
             THEN ForKeyInPatterns(text, i + 1, (key :> match.g1) @@ extracted)
             ELSE Null

RECURSIVE ForKeyInPatternsSkipping(_, _, _)
\* the loop with continue in place of return null
ForKeyInPatternsSkipping(text, i, extracted) ==
    IF i > Len(PatternKeys) THEN extracted
    ELSE LET key   == PatternKeys[i]
             match == RegexMatch(text, patterns[key])
         IN  IF match # Null /\ match.g1 # <<>>
             THEN ForKeyInPatternsSkipping(text, i + 1,
                                           (key :> match.g1) @@ extracted)
             ELSE ForKeyInPatternsSkipping(text, i + 1, extracted)

extractTokenInfoPartial(text) == ForKeyInPatternsSkipping(text, 1, EmptyObject)

extractTokenInfo(text) == ForKeyInPatterns(text, 1, EmptyObject)

(***************************************************************************)
(* Message texts                                                           *)
(***************************************************************************)
Prose == <<"N", "e", "w", " ", "g", "e", "m", ":", " ">>
Sp == <<" ">>
Tick == <<Backtick>>

SymbolVariants == {<<"$", "F", "O", "O">>, <<"$">>, <<>>}
CaVariants ==
    {Tick \o Repeat("A", CaMinLen) \o Tick,
     Tick \o Repeat("b", CaMaxLen) \o Tick,
     Tick \o Repeat("A", CaMinLen - 1) \o Tick,
     Tick \o Repeat("b", CaMaxLen + 1) \o Tick,
     Tick \o Repeat("A", CaMinLen),
     <<>>}
PriceVariants ==
    {LitPrice \o <<"$", "0", ".", "0", "0", "2">>,
     LitPrice \o <<"n", "/", "a">>,
     <<>>}
MarketCapVariants ==
    {LitMarketCap \o <<"$", "5", "0", "0", "k">>,
     LitMarketCap \o <<"?">>,
     <<>>}
HoldersVariants ==
    {LitHolders \o <<"1", "2", "0">>,
     LitHolders \o <<"m", "a", "n", "y">>,
     <<>>}
Top10Variants ==
    {LitTop10 \o <<"1", "2", ".", "5", "%">>,
     LitTop10 \o <<"1", "2", ".", "5">>,
     <<>>}

Compose(sym, ca, price, mc, holders, top10) ==
    Prose \o sym \o Sp \o ca \o Sp \o price \o Sp \o mc \o Sp \o holders
          \o Sp \o top10

\* the texts extractTokenInfo is applied to in SpecExtract
ExtractInputs ==
    {Compose(s, c, p, m, h, t) :
        s \in SymbolVariants, c \in CaVariants, p \in PriceVariants,
        m \in MarketCapVariants, h \in HoldersVariants, t \in Top10Variants}

TextA ==
    Compose(<<"$", "F", "O", "O">>, Tick \o Repeat("A", CaMinLen) \o Tick,
            LitPrice \o <<"$", "0", ".", "0", "0", "2">>,
            LitMarketCap \o <<"$", "5", "0", "0", "k">>,
            LitHolders \o <<"1", "2", "0">>,
            LitTop10 \o <<"1", "2", ".", "5", "%">>)
TextB ==
    Compose(<<"$", "B", "A", "R">>, Tick \o Repeat("b", CaMaxLen) \o Tick,
            LitPrice \o <<"$", "0", ".", "5">>,
            LitMarketCap \o <<"$", "1", ".", "2", "M">>,
            LitHolders \o <<"7">>,
            LitTop10 \o <<"3", "%">>)
TextNoHolders ==
    Compose(<<"$", "F", "O", "O">>, Tick \o Repeat("A", CaMinLen) \o Tick,
            LitPrice \o <<"$", "0", ".", "0", "0", "2">>,
            LitMarketCap \o <<"$", "5", "0", "0", "k">>,
            <<>>,
            LitTop10 \o <<"1", "2", ".", "5", "%">>)

(***************************************************************************)
(* Chat identifiers and inbound events                                     *)
(***************************************************************************)
\* a big-integer object, as entity.id and message.chatId are
BigInt(n) == [value |-> n]

DigitChars == <<"0", "1", "2", "3", "4", "5", "6", "7", "8", "9">>

RECURSIVE NatToString(_)
NatToString(n) ==
    IF n < 10 THEN <<DigitChars[n + 1]>>
    ELSE NatToString(n \div 10) \o <<DigitChars[(n % 10) + 1]>>

\* id.toString()
IdToString(id) ==
    IF id.value < 0 THEN <<"-">> \o NatToString(0 - id.value)
    ELSE NatToString(id.value)

\* the ids client.getEntity(targetChatUsername) may resolve to
EntityIds == {BigInt(42)}

\* the chats the inbound messages come from
OtherChatIds == {BigInt(7), BigInt(-42)}

EligibleMessages ==
    {[text |-> t, out |-> FALSE, chatId |-> c] :
        t \in {TextA, TextB, TextNoHolders}, c \in EntityIds}

\* the events the client dispatches: the messages the filter lets through,
\* each way of failing the filter, and an event without a message
InboundEvents ==
    {[message |-> m] : m \in EligibleMessages}
    \cup {[message |-> [text |-> TextA, out |-> TRUE, chatId |-> c]] :
             c \in EntityIds}
    \cup {[message |-> [text |-> <<>>, out |-> FALSE, chatId |-> c]] :
             c \in EntityIds}
    \cup {[message |-> [text |-> TextA, out |-> FALSE, chatId |-> c]] :
             c \in OtherChatIds \cup {Undefined}}
    \cup {[message |-> Undefined]}

\* the condition of the if statement of handleNewMessage
IsMatchedAnyChat(message, target) ==
    /\ message # Undefined
    /\ message.text # <<>>
    /\ ~message.out

IsMatched(message, target) ==
    /\ message # Undefined
    /\ message.text # <<>>
    /\ ~message.out
    /\ message.chatId # Undefined
    /\ JsString(IdToString(message.chatId)) = target

(***************************************************************************)
(* The outbound HTTP calls                                                 *)
(***************************************************************************)
P1 == JsString(<<"P", "1">>)
P2 == JsString(<<"P", "2">>)

Rejected(message) == [settled |-> "rejected", message |-> message]
Fulfilled(data) == [settled |-> "fulfilled", data |-> data]

\* how the promise of axios.get settles for the lookups of the relay
GetOutcomes ==
    {Rejected("timeout of 10000ms exceeded"),
     Fulfilled([pairs |-> <<>>]),
     Fulfilled([pairs |-> <<[pairAddress |-> P1]>>]),
     Fulfilled([pairs |-> <<[pairAddress |-> P2], [pairAddress |-> P1]>>])}

\* the result entries of a lookup response: with a pair address, with an
\* empty one, without one
PairEntries ==
    {[pairAddress |-> P1], [pairAddress |-> P2],
     [pairAddress |-> JsString(<<>>)], [chainId |-> "solana"]}

\* how the promise of axios.get may settle at all: the failures of the call,
\* and the response bodies with no, an empty or a filled list of results
AllGetOutcomes ==
    {Rejected("timeout of 10000ms exceeded"),
     Rejected("Request failed with status code 500"),
     Rejected("Network Error")}
    \cup {Fulfilled(Undefined), Fulfilled([schemaVersion |-> "1.0.0"]),
          Fulfilled([pairs |-> <<>>])}
    \cup {Fulfilled([pairs |-> ps]) :
             ps \in UNION {[1..n -> PairEntries] : n \in 1..MaxPairs}}

\* the contract addresses getPairAddress is called with in SpecLookup
LookupAddresses == {Repeat("A", CaMinLen), Repeat("b", CaMaxLen)}

\* how the promise of axios.post settles
PostOutcomes ==
    {Fulfilled(Undefined), Rejected("Request failed with status code 429")}

Line(by, line, arg) == [by |-> by, line |-> line, arg |-> arg]

\* response.data?.pairs?.length > 0
HasPairs(response) ==
    /\ "pairs" \in DOMAIN response.data
    /\ Len(response.data.pairs) > 0

\* entry.pairAddress
PairAddressField(entry) ==
    IF "pairAddress" \in DOMAIN entry THEN entry.pairAddress ELSE Undefined

Returns(value, lines) == [completion |-> "return", value |-> value, lines |-> lines]
Throws(value, lines) == [completion |-> "throw", value |-> value, lines |-> lines]

\* getPairAddress falling back on the token address when there is no pair
getPairAddressResumeFallback(by, tokenAddress, outcome) ==
    IF outcome.settled = "fulfilled" /\ HasPairs(outcome)
    THEN Returns(PairAddressField(outcome.data.pairs[1]),
                 <<Line(by, "Found pair address for", tokenAddress)>>)
    ELSE Returns(JsString(tokenAddress),
                 <<Line(by, "No pairs found for token", tokenAddress)>>)

\* getPairAddress without its try and catch
getPairAddressResumeNoCatch(by, tokenAddress, outcome) ==
    IF outcome.settled = "fulfilled"
    THEN IF HasPairs(outcome)
         THEN Returns(PairAddressField(outcome.data.pairs[1]),
                      <<Line(by, "Found pair address for", tokenAddress)>>)
         ELSE Returns(Null, <<Line(by, "No pairs found for token", tokenAddress)>>)
    ELSE Throws(outcome.message, <<>>)

\* getPairAddress taking the last entry of the response
getPairAddressResumeLast(by, tokenAddress, outcome) ==
    IF outcome.settled = "fulfilled"
    THEN IF HasPairs(outcome)
         THEN Returns(PairAddressField(
                          outcome.data.pairs[Len(outcome.data.pairs)]),
                      <<Line(by, "Found pair address for", tokenAddress)>>)
         ELSE Returns(Null, <<Line(by, "No pairs found for token", tokenAddress)>>)
    ELSE Returns(Null,
                 <<Line(by, "API Error fetching pair address", outcome.message)>>)

\* getPairAddress from the point where axios.get has settled with outcome:
\* its completion and the lines it logs (by: the handler it runs in)
getPairAddressResume(by, tokenAddress, outcome) ==
    IF outcome.settled = "fulfilled"
    THEN IF HasPairs(outcome)
         THEN LET pairAddress == PairAddressField(outcome.data.pairs[1])
              IN  Returns(pairAddress,
                          <<Line(by, "Found pair address for", tokenAddress)>>)
         ELSE Returns(Null, <<Line(by, "No pairs found for token", tokenAddress)>>)
    ELSE Returns(Null,
                 <<Line(by, "API Error fetching pair address", outcome.message)>>)

\* the body axios.post is called with by sendToDiscord(info, pairAddress), or
\* Null when sendToDiscord returns at its first line
sendToDiscordRequest(info, pairAddress) ==
    IF ~TruthyObject(info) \/ ~TruthyString(pairAddress) THEN Null
    ELSE [embeds |->
            <<[title       |-> info.tokenName,
               description |-> info.ca,
               statsValue  |-> <<info.price, info.mc, info.holders, info.top10>>,
               linksValue  |-> <<pairAddress.str, info.ca, info.ca>>]>>]

(***************************************************************************)
(* startUserbot                                                            *)
(***************************************************************************)
Init ==
    /\ mainPc = "start"
    /\ clientConnected = FALSE
    /\ handlerRegistered = FALSE
    /\ targetChatId = Undefined
    /\ events = <<>>
    /\ handlers = <<>>
    /\ log = <<>>
    /\ gets = <<>>
    /\ posts = <<>>
    /\ call = NoCall

\* startUserbot up to await client.start
Start ==
    /\ mainPc = "start"
    /\ log' = Append(log, Line(0, "Userbot started", <<>>))
    /\ mainPc' = "authenticating"
    /\ UNCHANGED <<clientConnected, handlerRegistered, targetChatId, events,
                   handlers, gets, posts, call>>

\* process.env.SESSION || "" on a first run
SavedSession == <<>>

\* the strings client.session.save() returns once client.start has resolved
CurrentSessions == {<<"1", "A", "Z">>}

\* client.start resolves; startUserbot runs up to await client.getEntity
AuthSucceeds(currentSession) ==
    /\ mainPc = "authenticating"
    /\ clientConnected' = TRUE
    /\ log' = log \o <<Line(0, "Userbot connected successfully", <<>>)>>
                  \o (IF SavedSession # currentSession
                      THEN <<Line(0, "New session string generated and saved", <<>>)>>
                      ELSE <<>>)
    /\ mainPc' = "resolving"
    /\ UNCHANGED <<handlerRegistered, targetChatId, events, handlers, gets,
                   posts, call>>

\* client.start rejects: startUserbot rejects and the catch of its caller logs
AuthFails ==
    /\ mainPc = "authenticating"
    /\ log' = Append(log, Line(0, "FATAL ERROR", <<>>))
    /\ mainPc' = "rejected"
    /\ UNCHANGED <<clientConnected, handlerRegistered, targetChatId, events,
                   handlers, gets, posts, call>>

\* client.getEntity resolves: the handler is registered and startUserbot returns
ResolveSucceeds(entityId) ==
    /\ mainPc = "resolving"
    /\ targetChatId' = JsString(IdToString(entityId))
    /\ log' = Append(log, Line(0, "Listening for messages from", IdToString(entityId)))
    /\ handlerRegistered' = TRUE
    /\ mainPc' = "listening"
    /\ UNCHANGED <<clientConnected, events, handlers, gets, posts, call>>

\* the catch block that registers the handler all the same
ResolveFailsStillListens ==
    /\ mainPc = "resolving"
    /\ log' = log \o <<Line(0, "ERROR", <<>>), Line(0, "ERROR DETAILS", <<>>)>>
    /\ handlerRegistered' = TRUE
    /\ mainPc' = "disconnecting"
    /\ UNCHANGED <<clientConnected, targetChatId, events, handlers, gets,
                   posts, call>>

\* client.getEntity rejects: the catch block up to await client.disconnect
ResolveFails ==
    /\ mainPc = "resolving"
    /\ log' = log \o <<Line(0, "ERROR", <<>>), Line(0, "ERROR DETAILS", <<>>)>>
    /\ mainPc' = "disconnecting"
    /\ UNCHANGED <<clientConnected, handlerRegistered, targetChatId, events,
                   handlers, gets, posts, call>>

\* client.disconnect resolves and startUserbot returns
DisconnectReturns ==
    /\ mainPc = "disconnecting"
    /\ clientConnected' = FALSE
    /\ mainPc' = "fatalSetupError"
    /\ UNCHANGED <<handlerRegistered, targetChatId, events, handlers, log,
                   gets, posts, call>>

(***************************************************************************)
(* handleNewMessage                                                        *)
(***************************************************************************)
\* the locals of one invocation of handleNewMessage
Invocation(pc, info, response, pairAddress) ==
    [pc |-> pc, info |-> info, response |-> response, pairAddress |-> pairAddress]

\* the info that the invocation for events[m] passes to sendToDiscord, were
\* info one variable shared by the invocations
InfoShared(hs, m) ==
    LET S == {k \in 1..Len(hs) : hs[k].info # Undefined}
    IN  hs[Max(S)].info

\* the info that the invocation for events[m] passes to sendToDiscord
InfoOf(hs, m) == hs[m].info

\* the client dispatches event: handleNewMessage runs up to its first await
\* (axios.get in getPairAddress) or to its end.  The handler is an async
\* function handed to client.addEventHandler as it is: at its first await it
\* gives the event loop back, and nothing in the source makes the dispatch of
\* the next event wait for the promise it returned.
Deliver(event) ==
    /\ handlerRegistered
    /\ clientConnected
    /\ Len(events) < MaxEvents
    /\ events' = Append(events, event)
    /\ LET m == Len(events) + 1
           message == event.message
       IN  IF IsMatched(message, targetChatId)
           THEN LET info == extractTokenInfo(message.text)
                    received == Line(m, "MESSAGE RECEIVED", message.text)
                IN  IF TruthyObject(info)
                    THEN /\ log' = log \o <<received,
                                            Line(m, "Extracted", info.tokenName)>>
                         /\ gets' = Append(gets, [by |-> m, q |-> info.ca])
                         /\ handlers' = Append(handlers,
                               Invocation("awaitGet", info, Undefined, Undefined))
                    ELSE /\ log' = log \o <<received,
                                            Line(m, "Message did not match expected format", <<>>)>>
                         /\ gets' = gets
                         /\ handlers' = Append(handlers,
                               Invocation("returned", info, Undefined, Undefined))
           ELSE /\ handlers' = Append(handlers,
                      Invocation("returned", Undefined, Undefined, Undefined))
                /\ UNCHANGED <<log, gets>>
    /\ UNCHANGED <<mainPc, clientConnected, handlerRegistered, targetChatId,
                   posts, call>>

\* the handler that calls getPairAddress again when the lookup has failed
GetSettlesRetry(m, outcome) ==
    /\ m \in 1..Len(handlers)
    /\ handlers[m].pc = "awaitGet"
    /\ outcome.settled = "rejected"
    /\ gets' = Append(gets, [by |-> m, q |-> handlers[m].info.ca])
    /\ log' = Append(log, Line(m, "API Error fetching pair address",
                               outcome.message))
    /\ UNCHANGED <<mainPc, clientConnected, handlerRegistered, targetChatId,
                   events, handlers, posts, call>>

\* axios.get settles for the invocation of events[m]: getPairAddress finishes,
\* handleNewMessage resumes and runs up to await axios.post in sendToDiscord,
\* or to its end.  The resumptions are promise jobs of one turn of the event
\* loop, so no other event or HTTP completion comes between them.
GetSettles(m, outcome) ==
    /\ m \in 1..Len(handlers)
    /\ handlers[m].pc = "awaitGet"
    /\ LET info == InfoOf(handlers, m)
           got  == getPairAddressResume(m, handlers[m].info.ca, outcome)
           pairAddress == got.value
           body == sendToDiscordRequest(info, pairAddress)
       IN  IF got.completion = "throw"
           THEN /\ handlers' = [handlers EXCEPT ![m].pc = "threw",
                                                ![m].response = outcome]
                /\ log' = log \o got.lines
                /\ posts' = posts
           ELSE IF TruthyString(pairAddress) /\ body # Null
           THEN /\ handlers' = [handlers EXCEPT ![m].pc = "awaitPost",
                                                ![m].response = outcome,
                                                ![m].pairAddress = pairAddress]
                /\ log' = log \o got.lines
                /\ posts' = Append(posts, [by |-> m, body |-> body])
           ELSE /\ handlers' = [handlers EXCEPT ![m].pc = "returned",
                                                ![m].response = outcome,
                                                ![m].pairAddress = pairAddress]
                /\ log' = log \o got.lines
                          \o (IF TruthyString(pairAddress) THEN <<>>
                              ELSE <<Line(m, "Could not find pair address for",
                                          handlers[m].info.ca)>>)
                /\ posts' = posts
    /\ UNCHANGED <<mainPc, clientConnected, handlerRegistered, targetChatId,
                   events, gets, call>>

\* axios.post settles for the invocation of events[m]: sendToDiscord logs and
\* returns, handleNewMessage resumes and returns
PostSettles(m, outcome) ==
    /\ m \in 1..Len(handlers)
    /\ handlers[m].pc = "awaitPost"
    /\ log' = Append(log,
                 IF outcome.settled = "fulfilled"
                 THEN Line(m, "Successfully forwarded embed to Discord", <<>>)
                 ELSE Line(m, "DISCORD ERROR", outcome.message))
    /\ handlers' = [handlers EXCEPT ![m].pc = "returned"]
    /\ UNCHANGED <<mainPc, clientConnected, handlerRegistered, targetChatId,
                   events, gets, posts, call>>

Next ==
    \/ Start
    \/ \E currentSession \in CurrentSessions : AuthSucceeds(currentSession)
    \/ AuthFails
    \/ \E entityId \in EntityIds : ResolveSucceeds(entityId)
    \/ ResolveFails
    \/ DisconnectReturns
    \/ \E event \in InboundEvents : Deliver(event)
    \/ \E m \in 1..MaxEvents, outcome \in GetOutcomes : GetSettles(m, outcome)
    \/ \E m \in 1..MaxEvents, outcome \in PostOutcomes : PostSettles(m, outcome)

Spec == Init /\ [][Next]_vars


(***************************************************************************)
(* Isolated calls of extractTokenInfo and getPairAddress                   *)
(***************************************************************************)
Fresh ==
    /\ mainPc = "start"
    /\ clientConnected = FALSE
    /\ handlerRegistered = FALSE
    /\ targetChatId = Undefined
    /\ events = <<>>
    /\ handlers = <<>>
    /\ log = <<>>
    /\ gets = <<>>
    /\ posts = <<>>

\* extractTokenInfo(call.text) runs
ApplyExtract ==
    /\ call.pc = "called"
    /\ call' = [call EXCEPT !.pc = "returned",
                            !.result = extractTokenInfo(call.text)]
    /\ UNCHANGED <<mainPc, clientConnected, handlerRegistered, targetChatId,
                   events, handlers, log, gets, posts>>

InitExtract ==
    /\ Fresh
    /\ \E text \in ExtractInputs :
          call = [pc |-> "called", text |-> text, result |-> Undefined]

NextExtract == ApplyExtract

SpecExtract == InitExtract /\ [][NextExtract]_vars

\* axios.get settles for getPairAddress(call.tokenAddress), which finishes
ApplyLookup(outcome) ==
    /\ call.pc = "awaitGet"
    /\ LET got == getPairAddressResume(0, call.tokenAddress, outcome)
       IN  /\ call' = [call EXCEPT !.pc = "returned", !.outcome = outcome,
                                   !.result = got]
           /\ log' = log \o got.lines
    /\ UNCHANGED <<mainPc, clientConnected, handlerRegistered, targetChatId,
                   events, handlers, gets, posts>>

\* getPairAddress(tokenAddress) has run up to await axios.get
InitLookup ==
    /\ mainPc = "start"
    /\ clientConnected = FALSE
    /\ handlerRegistered = FALSE
    /\ targetChatId = Undefined
    /\ events = <<>>
    /\ handlers = <<>>
    /\ log = <<>>
    /\ posts = <<>>
    /\ \E tokenAddress \in LookupAddresses :
          /\ gets = <<[by |-> 0, q |-> tokenAddress]>>
          /\ call = [pc |-> "awaitGet", tokenAddress |-> tokenAddress,
                     outcome |-> Undefined, result |-> Undefined]

NextLookup == \E outcome \in AllGetOutcomes : ApplyLookup(outcome)

SpecLookup == InitLookup /\ [][NextLookup]_vars

(***************************************************************************)
(* Properties                                                              *)
(***************************************************************************)
Indices(seq) == 1..Len(seq)

GetsBy(m) == {i \in Indices(gets) : gets[i].by = m}
PostsBy(m) == {i \in Indices(posts) : posts[i].by = m}
LinesBy(m) == {i \in Indices(log) : log[i].by = m}

\* the lookup response has at least one result entry
HasEntries(outcome) ==
    /\ outcome.settled = "fulfilled"
    /\ "pairs" \in DOMAIN outcome.data
    /\ outcome.data.pairs # <<>>

\* the message of the event passes the three conditions of eligibility
Eligible(event) ==
    /\ event.message # Undefined
    /\ ~event.message.out
    /\ event.message.text # <<>>
    /\ event.message.chatId # Undefined
    /\ targetChatId = JsString(IdToString(event.message.chatId))

\* C1: a webhook POST is issued for a message only if the extraction of its
\* text returned a record and its lookup returned a pair address; when the
\* extraction returns absent, or the lookup fails or has zero results, no
\* webhook POST is issued for the message.
C1_ForwardOnlyIfResolved ==
    /\ \A i \in Indices(posts) :
          LET h == handlers[posts[i].by]
          IN  /\ TruthyObject(h.info)
              /\ h.response # Undefined
              /\ HasEntries(h.response)
              /\ TruthyString(PairAddressField(h.response.data.pairs[1]))
    /\ \A m \in Indices(handlers) :
          LET h == handlers[m]
          IN  (\/ h.info = Null
               \/ h.info = Undefined
               \/ (h.response # Undefined /\ ~HasEntries(h.response)))
              => PostsBy(m) = {}

C1_Witness ==
    \E m, n \in Indices(handlers) :
        /\ PostsBy(m) # {}
        /\ handlers[n].pc = "returned"
        /\ handlers[n].response # Undefined
        /\ ~HasEntries(handlers[n].response)
        /\ PostsBy(n) = {}

\* every event that is not eligible has left no trace, and every eligible one
\* is logged as received
C2_Inv ==
    \A m \in Indices(events) :
        IF Eligible(events[m])
        THEN \E i \in LinesBy(m) : log[i].line = "MESSAGE RECEIVED"
        ELSE /\ handlers[m] = Invocation("returned", Undefined, Undefined, Undefined)
             /\ LinesBy(m) = {}
             /\ GetsBy(m) = {}
             /\ PostsBy(m) = {}

\* the step that dispatches an event that is not eligible changes nothing but
\* the record that the event was dispatched and its handler returned
C2_Step ==
    (Len(events') = Len(events) + 1 /\ ~Eligible(events'[Len(events')]))
    => /\ UNCHANGED <<mainPc, clientConnected, handlerRegistered, targetChatId,
                      log, gets, posts>>
       /\ SubSeq(handlers', 1, Len(handlers)) = handlers

\* C2: an event is processed (logged as received, extracted, looked up,
\* forwarded) only if its message is not outgoing, has a non-empty text and
\* comes from the target chat; for any other event the handler extracts
\* nothing, calls nothing, logs nothing and leaves the state unchanged.
C2_OnlyEligibleProcessed == []C2_Inv /\ [][C2_Step]_vars

C2_Witness ==
    \E m, n \in Indices(events) :
        /\ m < n
        /\ Eligible(events[m])
        /\ handlers[m].pc = "awaitGet"
        /\ ~Eligible(events[n])
        /\ events[n].message # Undefined
        /\ events[n].message.chatId # Undefined
        /\ handlers[n].pc = "returned"

Suspended(m) == handlers[m].pc \in {"awaitGet", "awaitPost"}

\* C3: message handlers never overlap: at most one handler is between the
\* start of its processing and the end of its lookup and webhook calls.
C3_NoOverlap ==
    Cardinality({m \in Indices(handlers) : Suspended(m)}) <= 1

\* C4: webhook POSTs are issued in the order in which their messages were
\* delivered.
C4_PostsInDeliveryOrder ==
    \A i, j \in Indices(posts) : i < j => posts[i].by < posts[j].by

\* the processing of events[m] ended in one of the contained failures
Failed(m) ==
    LET h == handlers[m]
    IN  \/ h.info = Null
        \/ (h.response # Undefined /\ h.pairAddress = Null)
        \/ \E i \in LinesBy(m) : log[i].line = "DISCORD ERROR"

C5_Inv ==
    /\ \A m \in Indices(handlers) : handlers[m].pc # "threw"
    /\ (\E m \in Indices(handlers) : Failed(m))
          => handlerRegistered /\ clientConnected
    /\ \A m, n \in Indices(handlers) :
          (m < n /\ Failed(m) /\ Eligible(events[n]))
          => /\ \E i \in LinesBy(n) : log[i].line = "MESSAGE RECEIVED"
             /\ handlers[n].info # Undefined
             /\ (TruthyObject(handlers[n].info) => GetsBy(n) # {})

\* C5: per-message failures are contained: after an extraction mismatch, a
\* lookup failure or a webhook failure the handler has returned without
\* throwing, the listener stays subscribed, and the later eligible messages
\* are processed.
C5_FailuresContained ==
    []C5_Inv /\ [][handlerRegistered => handlerRegistered']_vars

C5_Witness ==
    \E m, n \in Indices(handlers) :
        /\ m < n
        /\ handlers[m].pc = "returned"
        /\ \E i \in LinesBy(m) : log[i].line = "DISCORD ERROR"
        /\ handlers[n].pc = "returned"
        /\ \E i \in LinesBy(n) :
              /\ log[i].line = "Successfully forwarded embed to Discord"
              /\ \E j \in LinesBy(m) : log[j].line = "DISCORD ERROR" /\ j < i

\* C6: no retry: for each eligible message whose extraction succeeds exactly
\* one lookup GET is issued and at most one webhook POST, whether or not the
\* GET or the POST fails.
C6_NoRetry ==
    \A m \in Indices(handlers) :
        IF TruthyObject(handlers[m].info)
        THEN Cardinality(GetsBy(m)) = 1 /\ Cardinality(PostsBy(m)) <= 1
        ELSE GetsBy(m) = {} /\ PostsBy(m) = {}

C6_Witness ==
    \E m, n \in Indices(handlers) :
        /\ handlers[m].pc = "returned"
        /\ handlers[m].response # Undefined
        /\ handlers[m].response.settled = "rejected"
        /\ handlers[n].pc = "returned"
        /\ \E i \in LinesBy(n) : log[i].line = "DISCORD ERROR"

SetupFailed == mainPc \in {"disconnecting", "fatalSetupError"}

C7_Inv ==
    /\ SetupFailed
          => /\ ~handlerRegistered
             /\ events = <<>> /\ handlers = <<>> /\ gets = <<>> /\ posts = <<>>
    /\ mainPc = "fatalSetupError" => ~clientConnected

\* C7: if resolving the target chat fails at startup the run ends in a
\* terminal failure state: the client is disconnected, no handler is ever
\* registered and no message is ever extracted, looked up or forwarded.
C7_FatalSetupError ==
    []C7_Inv /\ [][SetupFailed => SetupFailed' /\ ~handlerRegistered']_vars

C7_Witness ==
    /\ mainPc = "fatalSetupError"
    /\ \E i \in Indices(log) : log[i].line = "ERROR DETAILS"

KeySet == {PatternKeys[i] : i \in 1..Len(PatternKeys)}

PatternMatches(text, key) == RegexMatch(text, patterns[key]) # Null

\* C8: extraction is all-or-nothing: the result is a record of all six fields
\* when every one of the six patterns matches the text, and the absent result
\* when at least one pattern does not match; never a record of fewer fields.
C8_AllOrNothing ==
    call.pc = "returned" =>
        LET r == call.result
            all == \A key \in KeySet : PatternMatches(call.text, key)
        IN  /\ all => r # Null /\ DOMAIN r = KeySet
            /\ ~all => r = Null
            /\ r # Null => DOMAIN r = KeySet

C8_Witness ==
    /\ call.pc = "returned"
    /\ call.result # Null
    /\ call.result.tokenName = <<"F", "O", "O">>
    /\ call.result.top10 = <<"1", "2", ".", "5", "%">>
    /\ Len(call.result.ca) = CaMaxLen

Diagnostics == {"No pairs found for token", "API Error fetching pair address"}

\* C9: getPairAddress returns the absent result when the response has zero
\* result entries or the call fails, having logged a diagnostic line, and the
\* pair-address field of the first entry when there are one or more entries.
C9_ResolvePair ==
    call.pc = "returned" =>
        /\ call.result.completion = "return"
        /\ IF HasEntries(call.outcome)
           THEN call.result.value = PairAddressField(call.outcome.data.pairs[1])
           ELSE /\ call.result.value = Null
                /\ log # <<>>
                /\ log[Len(log)].line \in Diagnostics

C9_Witness ==
    /\ call.pc = "returned"
    /\ HasEntries(call.outcome)
    /\ Len(call.outcome.data.pairs) > 1
    /\ call.result.value = P2
    /\ PairAddressField(call.outcome.data.pairs[2]) = P1

\* C10: every webhook POST carries the record extracted from one message
\* together with the pair address that the lookup issued for the contract
\* address of that same message returned.
C10_NoMixing ==
    \A i \in Indices(posts) :
        LET m == posts[i].by
            h == handlers[m]
            embed == posts[i].body.embeds[1]
        IN  /\ embed.title = h.info.tokenName
            /\ embed.description = h.info.ca
            /\ embed.statsValue = <<h.info.price, h.info.mc, h.info.holders,
                                    h.info.top10>>
            /\ \E g \in GetsBy(m) : gets[g].q = embed.description
            /\ HasEntries(h.response)
            /\ JsString(embed.linksValue[1]) =
                  PairAddressField(h.response.data.pairs[1])
            /\ embed.linksValue[2] = h.info.ca
            /\ embed.linksValue[3] = h.info.ca

C10_Witness ==
    /\ Len(posts) = 2
    /\ posts[1].by = 2
    /\ posts[2].by = 1
    /\ posts[1].body.embeds[1].title # posts[2].body.embeds[1].title
    /\ posts[1].body.embeds[1].linksValue[1] # posts[2].body.embeds[1].linksValue[1]

====
